---- MODULE Spec2Model ----
(***************************************************************************)
(* A model of shiny/_autoreload.py: the response-body rewriting shim       *)
(* (ResponseMangler with the InjectAutoreloadMiddleware rewrite function)  *)
(* the autoreload control server (_coro_main) and the worker's log watcher *)
(* (HotReloadHandler); and of the current session context of               *)
(* shiny/session/_utils.py.                                                *)
(*                                                                         *)
(* Bytes are sequences of one-character strings.  An ASGI event is a       *)
(* record with a "type" field.  Each component has a specification of its  *)
(* own; the variables of the other component stay at their initial value.  *)
(***************************************************************************)
EXTENDS Integers, Sequences, FiniteSets, TLC

VARIABLES
    \* ---- InjectAutoreloadMiddleware / ResponseMangler (one response) ----
    port,              \* SHINY_AUTORELOAD_PORT when the middleware is constructed
    script,            \* self.script of the middleware
    scope,             \* the ASGI scope of the request
    app_send,          \* the send callable __call__ hands to the wrapped app
    _mangler,          \* the rewrite function the ResponseMangler was given
    calls,             \* calls of the rewrite function self._mangler (history)
    _done,             \* ResponseMangler._done
    _response_start,   \* ResponseMangler._response_start (None or an event)
    _body,             \* ResponseMangler._body
    sent,              \* the events passed to the downstream self._send, in order
    raised,            \* send raised AssertionError into the application
    \* ---- the wrapped ASGI application producing the response ----
    appBody,           \* B: the whole body the application sends
    appHeaders,        \* the headers of its http.response.start
    pos,               \* how many bytes of B it has sent
    nChunks,           \* http.response.body events it has sent
    nStarts,           \* http.response.start events it has sent
    nOthers,           \* events of another type it has sent
    finished,          \* it has sent the body event that ends the response
    \* ---- the autoreload control server, _coro_main ----
    reload_now,        \* the value of the asyncio.Event reload_now
    launch_browser,    \* the nonlocal flag of nudge
    launchArg,         \* the launch_browser argument of start_server (history)
    opened,            \* calls of webbrowser.open
    nudges,            \* calls of nudge (history)
    pulses,            \* calls of reload_now.set() (history)
    conn,              \* the connections, by connection id
    \* ---- the session layer, shiny/session/_utils.py ----
    _current_session,  \* the context variable, by task: a session or None
    _default_session,  \* the module's default session, or None
    _current_namespace,\* the context variable of shiny.module, by task
    frames,            \* the context managers each task is inside, by task
    running,           \* the task the event loop is running
    reactives,         \* the effects and calcs created so far
    nextOid,           \* the identity of the next session object
    last,              \* the last call of require_active_session and its outcome
    unwound,           \* how each task left its last session_context block
    \* ---- the worker's log watcher, HotReloadHandler ----
    secret_env,        \* SHINY_AUTORELOAD_SECRET in the worker ("unset" or a value)
    record,            \* the message of the last log record handed to emit
    emitted,           \* log records handed to emit (history)
    begins,            \* calls of reload_begin (history)
    ends,              \* calls of reload_end (history)
    tasks,             \* tasks created by reload_end that have not run yet
    notified           \* the connections those tasks opened, in order

manglerVars == << port, script, scope, app_send, _mangler, calls, _done, _response_start, _body, sent, raised,
                  appBody, appHeaders, pos, nChunks, nStarts, nOthers,
                  finished >>

reloadVars == << reload_now, launch_browser, launchArg, opened, nudges,
                 pulses, conn >>

sessionVars == << _current_session, _default_session, _current_namespace,
                  frames, running, reactives, nextOid, last, unwound >>

watcherVars == << secret_env, record, emitted, begins, ends, tasks, notified >>

vars == << manglerVars, reloadVars, sessionVars, watcherVars >>

(***************************************************************************)
(* Bounds of the model.                                                    *)
(***************************************************************************)
MaxPieces == 2     \* a body is at most this many pieces of BodyPieces
MaxChunks == 3     \* http.response.body events per response
MaxBrowsers == 2   \* websocket connections to /autoreload
MaxWorkers == 2    \* connections of any other kind

(***************************************************************************)
(* Bytes.                                                                  *)
(***************************************************************************)
None == [type |-> "None"]

\* b"</head>", the marker mangle_callback looks for
HeadClose == << "<", "/", "h", "e", "a", "d", ">" >>

\* the literal text of self.script before the reload URL
ScriptPrefix ==
    << " ", " ", "<", "s", "c", "r", "i", "p", "t", " ", "s", "r", "c", "=",
       "\"", "_", "_", "s", "h", "a", "r", "e", "d", "/", "s", "h", "i", "n",
       "y", "-", "a", "u", "t", "o", "r", "e", "l", "o", "a", "d", ".", "j",
       "s", "\"", " ", "d", "a", "t", "a", "-", "w", "s", "-", "u", "r", "l",
       "=", "\"" >>

\* the literal text of self.script after the reload URL
ScriptSuffix ==
    << "\"", ">", "<", "/", "s", "c", "r", "i", "p", "t", ">", "\n", "<",
       "/", "h", "e", "a", "d", ">" >>

RECURSIVE Concat(_)
Concat(ss) == IF ss = << >> THEN << >> ELSE Head(ss) \o Concat(Tail(ss))

\* html.escape(s) with quote=True, one character
EscapeChar(c) ==
    CASE c = "&"  -> << "&", "a", "m", "p", ";" >>
      [] c = "<"  -> << "&", "l", "t", ";" >>
      [] c = ">"  -> << "&", "g", "t", ";" >>
      [] c = "\"" -> << "&", "q", "u", "o", "t", ";" >>
      [] c = "'"  -> << "&", "#", "x", "2", "7", ";" >>
      [] OTHER    -> << c >>

html_escape(s) == Concat([i \in 1..Len(s) |-> EscapeChar(s[i])])

\* InjectAutoreloadMiddleware.__init__: self.script for a reload URL
Script(ws_url) ==
    IF ws_url = << >> THEN << >>
    ELSE ScriptPrefix \o html_escape(ws_url) \o ScriptSuffix

\* the reload URL autoreload_url() returns: what the hosting environment's
\* proxy makes of the loopback URL of the port (here with a query string,
\* whose "&" html.escape rewrites)
WsUrls ==
    { << "w", "s", ":", "/", "/", "h", "/", "a", "u", "t", "o", "r", "e",
         "l", "o", "a", "d", "?", "a", "&", "b" >> }

\* bytes.find: the index (from 1) of the first occurrence of pat in s, or 0
Find(s, pat) ==
    LET hits == { i \in 1..(Len(s) - Len(pat) + 1) :
                    SubSeq(s, i, i + Len(pat) - 1) = pat }
    IN  IF hits = {} THEN 0
        ELSE CHOOSE i \in hits : \A j \in hits : i <= j

\* bytes.replace(old, new): every occurrence, from left to right
RECURSIVE ReplaceEvery(_, _, _)
ReplaceEvery(s, old, new) ==
    LET i == Find(s, old)
    IN  IF i = 0 THEN s
        ELSE SubSeq(s, 1, i - 1) \o new
             \o ReplaceEvery(SubSeq(s, i + Len(old), Len(s)), old, new)

\* bytes.replace(old, new, 1)
Replace1(s, old, new) ==
    LET i == Find(s, old)
    IN  IF i = 0 THEN s
        ELSE SubSeq(s, 1, i - 1) \o new \o SubSeq(s, i + Len(old), Len(s))

\* mangle_callback(body) -> (bytes, done)
mangle_callback(body) ==
    IF Find(body, HeadClose) # 0
    THEN << Replace1(body, HeadClose, script), TRUE >>
    ELSE << body, FALSE >>

\* a rewrite function that deletes the first "x" of the body and never
\* reports done
strip(body) == << Replace1(body, << "x" >>, << >>), FALSE >>

\* a rewrite function that puts a "!" in front of the body and never
\* reports done
pad(body) == << << "!" >> \o body, FALSE >>

\* the rewrite functions a ResponseMangler is constructed with
Manglers == { "mangle_callback", "strip", "pad" }

\* self._mangler(body)
self_mangler(body) ==
    CASE _mangler = "strip" -> strip(body)
      [] _mangler = "pad"   -> pad(body)
      [] OTHER              -> mangle_callback(body)

(***************************************************************************)
(* Decimal numbers in header values: int(value) and str(n).encode().       *)
(***************************************************************************)
Digits == << "0", "1", "2", "3", "4", "5", "6", "7", "8", "9" >>

DigitVal(c) == (CHOOSE i \in 1..10 : Digits[i] = c) - 1

RECURSIVE NatOf(_)
NatOf(ds) ==
    IF ds = << >> THEN 0
    ELSE 10 * NatOf(SubSeq(ds, 1, Len(ds) - 1)) + DigitVal(ds[Len(ds)])

\* int(value) of ASCII decimal bytes
IntOf(ds) == IF ds # << >> /\ ds[1] = "-" THEN 0 - NatOf(Tail(ds)) ELSE NatOf(ds)

RECURSIVE StrOfNat(_)
StrOfNat(n) ==
    IF n < 10 THEN << Digits[n + 1] >>
    ELSE Append(StrOfNat(n \div 10), Digits[(n % 10) + 1])

\* str(n).encode("latin-1")
StrOf(n) == IF n < 0 THEN << "-" >> \o StrOfNat(0 - n) ELSE StrOfNat(n)

\* name.decode("ascii").lower() for the header names of the model
Lower(name) ==
    CASE name = "Content-Length" -> "content-length"
      [] name = "CONTENT-LENGTH" -> "content-length"
      [] name = "Content-Type"   -> "content-type"
      [] OTHER                   -> name


\* a length fix that is forgotten
KeepContentLength(event, offset) == event

\* _add_to_content_length(event, offset): the event with its headers rewritten
_add_to_content_length(event, offset) ==
    [event EXCEPT !.headers =
        [i \in 1..Len(event.headers) |->
            IF Lower(event.headers[i][1]) = "content-length"
            THEN << event.headers[i][1], StrOf(IntOf(event.headers[i][2]) + offset) >>
            ELSE event.headers[i]]]

(***************************************************************************)
(* ResponseMangler.send                                                    *)
(***************************************************************************)
\* event.get("more_body", False)
MoreBody(event) ==
    IF "more_body" \in DOMAIN event THEN event.more_body ELSE FALSE


\* a buffer that keeps the last chunk only
LastChunkOnly(body, chunk) == chunk

\* self._body += event["body"]
Accumulate(body, chunk) == body \o chunk


\* a flush that waits for the rewrite function alone
FlushWhenDoneOnly(done, more_body) == done

\* the condition of the flush: done or not more_body
FlushNow(done, more_body) == done \/ ~more_body


\* a flush whose body event always ends the response
FlushEndsBody(start, body, more_body) ==
    << start,
       [type |-> "http.response.body", body |-> body, more_body |-> FALSE] >>

\* a flush that sends the body ahead of the response-start
BodyThenStart(start, body, more_body) ==
    << [type |-> "http.response.body", body |-> body, more_body |-> more_body],
       start >>

\* the two awaits of the flush, in order
FlushEvents(start, body, more_body) ==
    << start,
       [type |-> "http.response.body", body |-> body, more_body |-> more_body] >>

\* the response-start after the length check of one body event
\* a correction that is applied only when the body grew
GrowOnly(start, old_len, new_len) ==
    IF new_len > old_len
    THEN _add_to_content_length(start, new_len - old_len)
    ELSE start

CorrectedStart(start, old_len, new_len) ==
    IF new_len # old_len
    THEN _add_to_content_length(start, new_len - old_len)
    ELSE start


\* a passthrough that drops the event
ForwardNothing(events, event) == events

\* await self._send(event): the sink has received one more event
Forward(events, event) == Append(events, event)


\* a check that never finds the response-start missing
NeverMissing(start) == FALSE

\* self._response_start is None
Missing(start) == start = None

\* a buffer that keeps the response-start it holds
KeepFirst(previous, event) == IF previous = None THEN event ELSE previous

\* self._response_start = event
Buffered(previous, event) == event

send(event) ==
    IF _done THEN
        /\ sent' = Forward(sent, event)
        /\ UNCHANGED << _done, _response_start, _body, raised, calls >>
    ELSE IF event.type = "http.response.start" THEN
        /\ _response_start' = Buffered(_response_start, event)
        /\ UNCHANGED << _done, _body, sent, raised, calls >>
    ELSE IF event.type = "http.response.body" THEN
        IF Missing(_response_start) THEN
            /\ raised' = TRUE
            /\ UNCHANGED << _done, _response_start, _body, sent, calls >>
        ELSE
            LET acc       == Accumulate(_body, event.body)
                old_len   == Len(acc)
                res       == self_mangler(acc)
                new_len   == Len(res[1])
                start     == CorrectedStart(_response_start, old_len, new_len)
                more_body == MoreBody(event)
            IN  /\ calls' = calls + 1
                /\ IF FlushNow(res[2], more_body) THEN
                    /\ _done' = TRUE
                    /\ sent' = sent \o FlushEvents(start, res[1], more_body)
                    /\ _response_start' = None
                    /\ _body' = << >>
                    /\ UNCHANGED raised
                   ELSE
                    /\ _response_start' = start
                    /\ _body' = res[1]
                    /\ UNCHANGED << _done, sent, raised >>
    ELSE
        UNCHANGED << _done, _response_start, _body, sent, raised, calls >>

\* what the send callable handed to the wrapped app does with an event:
\* mangler.send, or the server's send itself
Deliver(event) ==
    IF app_send = "mangler.send"
    THEN send(event)
    ELSE /\ sent' = Append(sent, event)
         /\ UNCHANGED << _done, _response_start, _body, raised, calls >>

(***************************************************************************)
(* The wrapped application: it sends its response through mangler.send.    *)
(* A well-behaved application sends one start and then the body in chunks; *)
(* the model also lets it break that order: it may send a body event       *)
(* before its start, a second start (of an error response) at any time,    *)
(* and one event of another type at any time.                              *)
(***************************************************************************)
BodyPieces == { << "x" >>, HeadClose, << "<", "/", "h", "e" >> }

RECURSIVE PieceSeqs(_)
PieceSeqs(n) ==
    IF n = 0 THEN { << >> }
    ELSE PieceSeqs(n - 1) \cup
         { Append(s, p) : s \in { t \in PieceSeqs(n - 1) : Len(t) = n - 1 },
                          p \in BodyPieces }

Bodies == { Concat(s) : s \in PieceSeqs(MaxPieces) }

\* the headers of the response-start: none, or a Content-Length declaring
\* len(B) under one of the spellings of its name
HeaderChoices(B) ==
    { << >>,
      << << "Content-Type", << "t", "e", "x", "t", "/", "h", "t", "m", "l" >> >>,
         << "Content-Length", StrOf(Len(B)) >> >>,
      << << "content-length", StrOf(Len(B)) >> >> }

StartEvent(status) ==
    [type |-> "http.response.start", status |-> status, headers |-> appHeaders]

BodyEvent(chunk, mb) ==
    IF mb = "absent"
    THEN [type |-> "http.response.body", body |-> chunk]
    ELSE [type |-> "http.response.body", body |-> chunk, more_body |-> (mb = "true")]

OtherEvent == [type |-> "http.response.trailers"]

\* the request the model of the shim alone follows: the root document
RootGet == [type |-> "http", path |-> "/", method |-> "GET"]

InitMangler ==
    /\ port = "8001"
    /\ script \in { Script(u) : u \in WsUrls }
    /\ scope = RootGet
    /\ app_send = "mangler.send"
    /\ _mangler = "mangle_callback"
    /\ calls = 0
    /\ _done = FALSE
    /\ _response_start = None
    /\ _body = << >>
    /\ sent = << >>
    /\ raised = FALSE
    /\ appBody \in Bodies
    /\ appHeaders \in HeaderChoices(appBody)
    /\ pos = 0
    /\ nChunks = 0
    /\ nStarts = 0
    /\ nOthers = 0
    /\ finished = FALSE
    \* the control server at rest
    /\ reload_now = FALSE
    /\ launch_browser = FALSE
    /\ launchArg = FALSE
    /\ opened = 0
    /\ nudges = 0
    /\ pulses = 0
    /\ conn = << >>
    \* the session layer at rest
    /\ _current_session = << >>
    /\ _default_session = None
    /\ _current_namespace = << >>
    /\ frames = << >>
    /\ running = 0
    /\ reactives = {}
    /\ nextOid = 0
    /\ last = None
    /\ unwound = << >>
    \* the log watcher at rest
    /\ secret_env = "unset"
    /\ record = << >>
    /\ emitted = 0
    /\ begins = 0
    /\ ends = 0
    /\ tasks = 0
    /\ notified = << >>

AppSendStart ==
    /\ app_send # "none"
    /\ ~raised
    /\ nStarts < 2
    /\ Deliver(StartEvent(IF nStarts = 0 THEN 200 ELSE 500))
    /\ nStarts' = nStarts + 1
    /\ UNCHANGED << port, script, scope, app_send, _mangler, appBody, appHeaders, pos, nChunks, nOthers, finished >>
    /\ UNCHANGED << reloadVars, sessionVars, watcherVars >>

AppSendBody ==
    /\ app_send # "none"
    /\ ~raised
    /\ ~finished
    /\ nChunks < MaxChunks
    /\ \E n \in 0..(Len(appBody) - pos), mb \in {"true", "false", "absent"} :
          /\ (mb # "true") => (pos + n = Len(appBody))
          /\ Deliver(BodyEvent(SubSeq(appBody, pos + 1, pos + n), mb))
          /\ pos' = pos + n
          /\ finished' = (mb # "true")
    /\ nChunks' = nChunks + 1
    /\ UNCHANGED << port, script, scope, app_send, _mangler, appBody, appHeaders, nStarts, nOthers >>
    /\ UNCHANGED << reloadVars, sessionVars, watcherVars >>

AppSendOther ==
    /\ app_send # "none"
    /\ ~raised
    /\ nOthers = 0
    /\ Deliver(OtherEvent)
    /\ nOthers' = nOthers + 1
    /\ UNCHANGED << port, script, scope, app_send, _mangler, appBody, appHeaders, pos, nChunks, nStarts, finished >>
    /\ UNCHANGED << reloadVars, sessionVars, watcherVars >>

NextMangler ==
    \/ AppSendStart
    \/ AppSendBody
    \/ AppSendOther

(***************************************************************************)
(* InjectAutoreloadMiddleware: construction and __call__.                  *)
(***************************************************************************)
\* os.getenv("SHINY_AUTORELOAD_PORT"): unset, empty, or a port number
Ports == { "unset", "", "8001" }

\* autoreload_url(): None (here the empty sequence, which `if ws_url` treats
\* alike) when the port is unset or empty, else the proxied URL of the port
autoreload_url(p) ==
    IF p \in { "unset", "" } THEN << >> ELSE CHOOSE u \in WsUrls : TRUE

\* the scopes of the requests the server hands to the middleware
Scopes ==
    { RootGet,
      [type |-> "http", path |-> "/", method |-> "POST"],
      [type |-> "http", path |-> "/x", method |-> "GET"],
      [type |-> "websocket", path |-> "/"] }


\* a middleware that forgets that the script may be empty
WrapsEveryRoot(sc) == sc.type = "http" /\ sc.path = "/"

\* __call__ goes on to create a ResponseMangler: neither early return is taken
Wraps(sc) ==
    /\ ~(sc.type # "http")
    /\ ~(sc.path # "/" \/ Len(script) = 0)

\* __call__(scope, receive, send) up to the call of the wrapped app
Call ==
    /\ app_send = "none"
    /\ app_send' = IF Wraps(scope) THEN "mangler.send" ELSE "send"
    /\ UNCHANGED << port, script, scope, _mangler, calls, _done, _response_start, _body,
                    sent, raised, appBody, appHeaders, pos, nChunks, nStarts,
                    nOthers, finished >>
    /\ UNCHANGED << reloadVars, sessionVars, watcherVars >>

InitMiddleware ==
    /\ port \in Ports
    /\ script = Script(autoreload_url(port))
    /\ scope \in Scopes
    /\ app_send = "none"
    /\ _mangler = "mangle_callback"
    /\ calls = 0
    /\ _done = FALSE
    /\ _response_start = None
    /\ _body = << >>
    /\ sent = << >>
    /\ raised = FALSE
    /\ appBody \in BodyPieces \cup { << >> }
    /\ appHeaders \in HeaderChoices(appBody)
    /\ pos = 0
    /\ nChunks = 0
    /\ nStarts = 0
    /\ nOthers = 0
    /\ finished = FALSE
    \* the control server at rest
    /\ reload_now = FALSE
    /\ launch_browser = FALSE
    /\ launchArg = FALSE
    /\ opened = 0
    /\ nudges = 0
    /\ pulses = 0
    /\ conn = << >>
    \* the session layer at rest
    /\ _current_session = << >>
    /\ _default_session = None
    /\ _current_namespace = << >>
    /\ frames = << >>
    /\ running = 0
    /\ reactives = {}
    /\ nextOid = 0
    /\ last = None
    /\ unwound = << >>
    \* the log watcher at rest
    /\ secret_env = "unset"
    /\ record = << >>
    /\ emitted = 0
    /\ begins = 0
    /\ ends = 0
    /\ tasks = 0
    /\ notified = << >>

NextMiddleware ==
    \/ Call
    \/ AppSendStart
    \/ AppSendBody
    \/ AppSendOther

(***************************************************************************)
(* The autoreload control server: _coro_main.                              *)
(*                                                                         *)
(* A connection is a record: its request, the response of                  *)
(* process_request, the place of its reload_server task (pc), the future   *)
(* of its reload_now.wait() (fut), the first message its peer has sent     *)
(* that was not read (inbox; reload_server reads one message at most, so   *)
(* what is queued behind it is never looked at), whether its peer has      *)
(* closed, and counters of what happened to it (unread: the messages left  *)
(* in the inbox when the handler returned).  Connection ids 1..MaxBrowsers *)
(* are the websocket connections to /autoreload, the others are of every   *)
(* other kind.                                                             *)
(***************************************************************************)
\* secrets.token_hex(32): some non-empty token
Secret == "abc"

\* the application URL of the redirect
app_url == "http://127.0.0.1:8000/"

BrowserIds == 1..MaxBrowsers
WorkerIds  == (MaxBrowsers + 1)..(MaxBrowsers + MaxWorkers)
ConnIds    == BrowserIds \cup WorkerIds

\* a request: its path, whether it carries an Upgrade header, and its
\* Shiny-Autoreload-Secret header ("none" when it has none)
BrowserRequests ==
    { [path |-> "/autoreload", upgrade |-> TRUE, hdr |-> "none"] }

WorkerRequests ==
    [path : {"/notify"}, upgrade : {TRUE}, hdr : {"none", "wrong", Secret}]
    \cup [path : {"/autoreload", "/notify"}, upgrade : {FALSE}, hdr : {Secret}]
    \cup [path : {"/other"}, upgrade : {TRUE}, hdr : {Secret}]

\* the messages a peer may send: text or binary frames
Messages ==
    { [kind |-> "str", data |-> "reload_end"],
      [kind |-> "str", data |-> "reload_begin"],
      [kind |-> "bytes", data |-> "reload_end"] }

NoConn ==
    [pc |-> "absent", req |-> None, response |-> None, fut |-> "none",
     inbox |-> << >>, unread |-> 0, peerClosed |-> FALSE, handled |-> FALSE,
     frames |-> 0, wakes |-> 0, since |-> 0, reads |-> 0, nudged |-> 0]

InitReload ==
    /\ reload_now = FALSE
    /\ launch_browser \in BOOLEAN
    /\ launchArg = launch_browser
    /\ opened = 0
    /\ nudges = 0
    /\ pulses = 0
    /\ conn = [c \in ConnIds |-> NoConn]
    \* the rewriting shim at rest
    /\ port = "unset"
    /\ script = << >>
    /\ scope = None
    /\ app_send = "none"
    /\ _mangler = "mangle_callback"
    /\ calls = 0
    /\ _done = FALSE
    /\ _response_start = None
    /\ _body = << >>
    /\ sent = << >>
    /\ raised = FALSE
    /\ appBody = << >>
    /\ appHeaders = << >>
    /\ pos = 0
    /\ nChunks = 0
    /\ nStarts = 0
    /\ nOthers = 0
    /\ finished = FALSE
    \* the session layer at rest
    /\ _current_session = << >>
    /\ _default_session = None
    /\ _current_namespace = << >>
    /\ frames = << >>
    /\ running = 0
    /\ reactives = {}
    /\ nextOid = 0
    /\ last = None
    /\ unwound = << >>
    \* the log watcher at rest
    /\ secret_env = "unset"
    /\ record = << >>
    /\ emitted = 0
    /\ begins = 0
    /\ ends = 0
    /\ tasks = 0
    /\ notified = << >>


\* a process_request that lets every request through to the handshake
NeverRedirect(req) == None

\* process_request(connection, request): a Response, or None
process_request(req) ==
    IF ~req.upgrade
    THEN [status |-> 301, reason |-> "Moved Permanently", Location |-> app_url]
    ELSE None

\* conn.request.headers.get("Shiny-Autoreload-Secret", "")
req_secret(req) == IF req.hdr = "none" THEN "" ELSE req.hdr


\* a handler that lets a request without the header through
MissingSecretPasses(req) == req_secret(req) \in { "", Secret }

\* a handler that does not compare the secret
AnyoneAuthorized(req) == TRUE

\* the /notify handler goes on to read a message
Authorized(req) == ~(req_secret(req) # Secret)

\* a comparison that forgets the type of the message
AnyReloadEnd(data) == data.data = "reload_end"

\* isinstance(data, str) and data == "reload_end"
IsReloadEnd(data) == data.kind = "str" /\ data.data = "reload_end"


\* a set() that wakes one waiting task only
WakeFirst(cs) ==
    [c \in ConnIds |->
        IF cs[c].fut = "pending" /\ \A d \in ConnIds : d < c => cs[d].fut # "pending"
        THEN [cs[c] EXCEPT !.fut = "done", !.wakes = @ + 1]
        ELSE cs[c]]

\* asyncio.Event.set(): the result of every waiting future is set
WakeAll(cs) ==
    [c \in ConnIds |->
        IF cs[c].fut = "pending"
        THEN [cs[c] EXCEPT !.fut = "done", !.wakes = @ + 1]
        ELSE cs[c]]


\* a nudge that sets the event and does not clear it
SetWithoutClear == TRUE

\* the value of reload_now when nudge returns: set() and then clear()
ValueAfterNudge == FALSE


\* a nudge that does not clear its flag
FlagKept == TRUE

\* nudge's flag once the browser was launched
FlagAfterLaunch == FALSE

\* a pulse is one more for every /autoreload handler that has entered its loop
CountPulse(cs) ==
    [c \in ConnIds |->
        IF cs[c].pc \in {"waiting", "sending"}
        THEN [cs[c] EXCEPT !.since = @ + 1]
        ELSE cs[c]]

\* nudge(), called by the handler of connection w whose connections are cs
nudge(w, cs) ==
    /\ IF launch_browser
       THEN launch_browser' = FlagAfterLaunch /\ opened' = opened + 1
       ELSE UNCHANGED << launch_browser, opened >>
    /\ reload_now' = ValueAfterNudge
    /\ conn' = WakeAll(CountPulse([cs EXCEPT ![w].nudged = @ + 1]))
    /\ nudges' = nudges + 1
    /\ pulses' = pulses + 1

\* the connection once its handler has returned or raised ConnectionClosed:
\* the server closes it, and its peer can do nothing more on it
Closed(r) == [r EXCEPT !.pc = "closed", !.fut = "none", !.peerClosed = FALSE,
                       !.inbox = << >>, !.unread = Len(r.inbox)]

\* await reload_now.wait() and what follows it without suspending: the
\* connection record after the call
EnterWait(r) ==
    IF reload_now
    THEN \* wait() returns at once, and conn.send is called
         IF r.peerClosed
         THEN Closed(r)
         ELSE [r EXCEPT !.pc = "sending", !.frames = @ + 1]
    ELSE [r EXCEPT !.pc = "waiting", !.fut = "pending"]

\* a peer connects and sends its request; process_request answers it
Connect(c, req) ==
    /\ conn[c].pc = "absent"
    /\ \A d \in ConnIds : (d < c /\ (d \in BrowserIds <=> c \in BrowserIds))
                              => conn[d].pc # "absent"
    /\ req \in (IF c \in BrowserIds THEN BrowserRequests ELSE WorkerRequests)
    /\ LET response == process_request(req)
       IN  conn' = [conn EXCEPT ![c] =
                [@ EXCEPT !.req = req, !.response = response,
                          !.pc = IF response = None THEN "accepted"
                                 ELSE "redirected"]]
    /\ UNCHANGED << reload_now, launch_browser, launchArg, opened, nudges, pulses >>
    /\ UNCHANGED << manglerVars, sessionVars, watcherVars >>

\* reload_server(conn) from its start to its first suspension or its return
HandlerStart(c) ==
    /\ conn[c].pc = "accepted"
    /\ LET r == [conn[c] EXCEPT !.handled = TRUE]
       IN  IF r.req.path = "/autoreload" THEN
               conn' = [conn EXCEPT ![c] = EnterWait(r)]
           ELSE IF r.req.path = "/notify" THEN
               IF ~Authorized(r.req)
               THEN conn' = [conn EXCEPT ![c] = Closed(r)]
               ELSE conn' = [conn EXCEPT ![c] = [r EXCEPT !.pc = "recv"]]
           ELSE
               conn' = [conn EXCEPT ![c] = Closed(r)]
    /\ UNCHANGED << reload_now, launch_browser, launchArg, opened, nudges, pulses >>
    /\ UNCHANGED << manglerVars, sessionVars, watcherVars >>

\* the task resumes from wait() and calls conn.send("autoreload")
Resume(c) ==
    /\ conn[c].pc = "waiting"
    /\ conn[c].fut = "done"
    /\ conn' = [conn EXCEPT ![c] =
            IF @.peerClosed
            THEN Closed(@)
            ELSE [@ EXCEPT !.fut = "none", !.pc = "sending", !.frames = @ + 1]]
    /\ UNCHANGED << reload_now, launch_browser, launchArg, opened, nudges, pulses >>
    /\ UNCHANGED << manglerVars, sessionVars, watcherVars >>

\* conn.send returns and the loop calls wait() again
SendDone(c) ==
    /\ conn[c].pc = "sending"
    /\ conn' = [conn EXCEPT ![c] = EnterWait(@)]
    /\ UNCHANGED << reload_now, launch_browser, launchArg, opened, nudges, pulses >>
    /\ UNCHANGED << manglerVars, sessionVars, watcherVars >>

\* conn.recv() returns a message; the handler nudges or not, and returns
Recv(c) ==
    /\ conn[c].pc = "recv"
    /\ conn[c].inbox # << >>
    /\ LET data == Head(conn[c].inbox)
           cs   == [conn EXCEPT ![c] =
                       Closed([@ EXCEPT !.inbox = Tail(@), !.reads = @ + 1])]
       IN  IF IsReloadEnd(data)
           THEN nudge(c, cs)
           ELSE /\ conn' = cs
                /\ UNCHANGED << reload_now, launch_browser, opened, nudges, pulses >>
    /\ UNCHANGED launchArg
    /\ UNCHANGED << manglerVars, sessionVars, watcherVars >>

\* conn.recv() raises ConnectionClosed, which the handler swallows
RecvClosed(c) ==
    /\ conn[c].pc = "recv"
    /\ conn[c].inbox = << >>
    /\ conn[c].peerClosed
    /\ conn' = [conn EXCEPT ![c] = Closed(@)]
    /\ UNCHANGED << reload_now, launch_browser, launchArg, opened, nudges, pulses >>
    /\ UNCHANGED << manglerVars, sessionVars, watcherVars >>

\* the peer of an open websocket connection sends its first message
PeerSend(c, m) ==
    /\ c \in WorkerIds
    /\ conn[c].pc \in {"accepted", "recv"}
    /\ ~conn[c].peerClosed
    /\ conn[c].inbox = << >>
    /\ conn' = [conn EXCEPT ![c].inbox = Append(@, m)]
    /\ UNCHANGED << reload_now, launch_browser, launchArg, opened, nudges, pulses >>
    /\ UNCHANGED << manglerVars, sessionVars, watcherVars >>

\* the peer of an open websocket connection closes it (a close that comes
\* before the handler runs is seen by the handler as one that comes after)
PeerClose(c) ==
    /\ conn[c].pc \in {"waiting", "sending", "recv"}
    /\ ~conn[c].peerClosed
    /\ conn' = [conn EXCEPT ![c].peerClosed = TRUE]
    /\ UNCHANGED << reload_now, launch_browser, launchArg, opened, nudges, pulses >>
    /\ UNCHANGED << manglerVars, sessionVars, watcherVars >>

NextReload ==
    \/ \E c \in ConnIds, req \in BrowserRequests \cup WorkerRequests : Connect(c, req)
    \/ \E c \in ConnIds : HandlerStart(c)
    \/ \E c \in ConnIds : Resume(c)
    \/ \E c \in ConnIds : SendDone(c)
    \/ \E c \in ConnIds : Recv(c)
    \/ \E c \in ConnIds : RecvClosed(c)
    \/ \E c \in ConnIds, m \in Messages : PeerSend(c, m)
    \/ \E c \in ConnIds : PeerClose(c)

(***************************************************************************)
(* The session layer: shiny/session/_utils.py.                             *)
(*                                                                         *)
(* Each task has its own context, so the context variables are kept by     *)
(* task.  A session object is a record: its identity (oid), its namespace  *)
(* (ns, a string), the module ids it was scoped by (path, history) and the *)
(* identity of its root session.  A task is inside a stack of context      *)
(* managers (frames): the session_context of a server function or of a     *)
(* running effect or calc, and the namespace_context of a module UI        *)
(* function.  Strings are sequences of one-character strings.              *)
(***************************************************************************)
MaxTasks == 2      \* tasks, each serving a session of its own
MaxDepth == 3      \* context managers a task is inside at once
MaxProxies == 2    \* module sessions created by make_scope

TaskIds == 1..MaxTasks

\* the ids module functions are called with
ModIds == { << "o" >>, << "i", "n" >> }

\* Root = ResolvedId("")
Root == << >>

\* ResolvedId.__call__(id) for a plain id: the namespace, a dash, the id
ResolvedId_call(self, id) ==
    IF self = Root THEN id ELSE self \o << "-" >> \o id

\* the session of the application for the connection task t serves
AppSession(t) == [oid |-> t, ns |-> Root, path |-> << >>, root |-> t]

\* a session installed as the default (express mode)
DefaultSession == [oid |-> 0, ns |-> Root, path |-> << >>, root |-> 0]

\* Session.make_scope(id): a SessionProxy of parent for the module id
make_scope(parent, id, oid) ==
    [oid |-> oid, ns |-> ResolvedId_call(parent.ns, id),
     path |-> Append(parent.path, id), root |-> parent.root]

\* resolve_id(id) in task t: current_namespace()(id)
resolve_id(t, id) == ResolvedId_call(_current_namespace[t], id)

get_current_session(t) ==
    IF _current_session[t] # None THEN _current_session[t]
    ELSE _default_session


\* require_active_session(session) called in task t: the session returned,
\* or the exception raised
require_active_session(session, t) ==
    LET s == IF session = None THEN get_current_session(t) ELSE session
    IN  IF s = None THEN [ok |-> FALSE, value |-> "RuntimeError"]
        ELSE [ok |-> TRUE, value |-> s]


\* a session_context that leaves the namespace as it is
KeepNamespace(session, current) == current

\* the namespace session_context installs: namespace_context(session.ns),
\* which installs a ResolvedId as it is, and Root for no session
ContextNamespace(session, current) ==
    IF session # None THEN session.ns ELSE Root


\* an exit that forgets to reset the context variable
NoReset(token, current) == current

\* _current_session.reset(token): the value the variable had before the set
ResetTo(token, current) == token

\* a variable all the tasks share: set assigns it for every task
SetEverywhere(ctx, t, value) == [u \in DOMAIN ctx |-> value]

\* ContextVar.set(value) in task t: the variable of the task's own context
SetIn(ctx, t, value) == [ctx EXCEPT ![t] = value]

\* a reset that is skipped when the block raises
ResetOnReturn(how, token, current) ==
    IF how = "return" THEN ResetTo(token, current) ELSE current

\* try: yield / finally: _current_session.reset(token), for a block that
\* returns and for one that raises
Finally(how, token, current) == ResetTo(token, current)

\* the top frame of task t
Top(t) == frames[t][Len(frames[t])]

\* session_context(session).__enter__ in task t, for a frame of the kind:
\* arg is the session handed to the function that runs inside
\* below is the stack the new frame goes on
SessionEnter(t, session, kind, arg, below) ==
    /\ _current_session' = SetIn(_current_session, t, session)
    /\ _current_namespace' =
          [_current_namespace EXCEPT ![t] = ContextNamespace(session, @)]
    /\ frames' = [frames EXCEPT ![t] =
          Append(below, [kind |-> kind, arg |-> arg, called |-> FALSE,
                     token |-> _current_session[t],
                     nstoken |-> _current_namespace[t]])]

InitSession ==
    /\ _current_session = [t \in TaskIds |-> None]
    /\ _default_session \in { None, DefaultSession }
    /\ _current_namespace = [t \in TaskIds |-> Root]
    /\ frames = [t \in TaskIds |-> << >>]
    /\ running = 1
    /\ reactives = {}
    /\ nextOid = MaxTasks + 1
    /\ last = None
    /\ unwound = [t \in TaskIds |-> "none"]
    \* the log watcher at rest
    /\ secret_env = "unset"
    /\ record = << >>
    /\ emitted = 0
    /\ begins = 0
    /\ ends = 0
    /\ tasks = 0
    /\ notified = << >>
    \* the rewriting shim at rest
    /\ port = "unset"
    /\ script = << >>
    /\ scope = None
    /\ app_send = "none"
    /\ _mangler = "mangle_callback"
    /\ calls = 0
    /\ _done = FALSE
    /\ _response_start = None
    /\ _body = << >>
    /\ sent = << >>
    /\ raised = FALSE
    /\ appBody = << >>
    /\ appHeaders = << >>
    /\ pos = 0
    /\ nChunks = 0
    /\ nStarts = 0
    /\ nOthers = 0
    /\ finished = FALSE
    \* the control server at rest
    /\ reload_now = FALSE
    /\ launch_browser = FALSE
    /\ launchArg = FALSE
    /\ opened = 0
    /\ nudges = 0
    /\ pulses = 0
    /\ conn = << >>

\* the application runs its server function for the session of task t:
\* with session_context(session): server(input, output, session)
RunServer(t) ==
    /\ running = t
    /\ frames[t] = << >>
    /\ SessionEnter(t, AppSession(t), "server", AppSession(t), frames[t])
    /\ UNCHANGED << _default_session, running, reactives, nextOid, last, unwound >>
    /\ UNCHANGED << manglerVars, reloadVars, watcherVars >>

\* a @module.server function is called with id: the child scope of the
\* active session is made, and the function runs in its session_context
CallModule(t, id) ==
    /\ running = t
    /\ Len(frames[t]) < MaxDepth
    /\ nextOid <= MaxTasks + MaxProxies
    /\ IF frames[t] = << >> THEN TRUE
       ELSE Top(t).kind \in { "server", "reactive" }
    /\ LET sess == require_active_session(None, t)
       IN  /\ sess.ok
           /\ LET child == make_scope(sess.value, id, nextOid)
                  below == IF frames[t] = << >> THEN frames[t]
                           ELSE [frames[t] EXCEPT ![Len(frames[t])].called = TRUE]
              IN  SessionEnter(t, child, "server", child, below)
    /\ nextOid' = nextOid + 1
    /\ UNCHANGED << _default_session, running, reactives, last, unwound >>
    /\ UNCHANGED << manglerVars, reloadVars, watcherVars >>

\* a server function creates an effect or a calc: it keeps the session that
\* is current at its creation
CreateReactive(t) ==
    /\ running = t
    /\ frames[t] # << >>
    /\ Top(t).kind = "server"
    /\ LET r == [owner |-> Top(t).arg, session |-> get_current_session(t)]
       IN  /\ r \notin reactives
           /\ reactives' = reactives \cup { r }
    /\ UNCHANGED << _current_session, _default_session, _current_namespace,
                    frames, running, nextOid, last, unwound >>
    /\ UNCHANGED << manglerVars, reloadVars, watcherVars >>

\* an effect is run by the flush, or a calc is read inside an effect or a
\* calc: its function runs in session_context(its session)
RunReactive(t) ==
    /\ running = t
    /\ Len(frames[t]) < MaxDepth
    /\ IF frames[t] = << >> THEN TRUE ELSE Top(t).kind = "reactive"
    /\ \E r \in reactives :
          /\ r.owner.root = t
          /\ SessionEnter(t, r.session, "reactive", r.owner, frames[t])
    /\ UNCHANGED << _default_session, running, reactives, nextOid, last, unwound >>
    /\ UNCHANGED << manglerVars, reloadVars, watcherVars >>

\* a @module.ui function is called with id: with namespace_context(id)
CallUi(t, id) ==
    /\ running = t
    /\ Len(frames[t]) < MaxDepth
    /\ IF frames[t] = << >> THEN TRUE ELSE Top(t).kind \in { "reactive", "ui" }
    /\ _current_namespace' =
          [_current_namespace EXCEPT ![t] = resolve_id(t, id)]
    /\ frames' = [frames EXCEPT ![t] =
          Append(@, [kind |-> "ui", arg |-> id, called |-> FALSE,
                     token |-> None, nstoken |-> _current_namespace[t]])]
    /\ UNCHANGED << _current_session, _default_session, running, reactives,
                    nextOid, last, unwound >>
    /\ UNCHANGED << manglerVars, reloadVars, watcherVars >>

\* the function inside the innermost context manager returns or raises:
\* the finally clauses reset the namespace and then the session
Return(t) ==
    /\ running = t
    /\ frames[t] # << >>
    /\ _current_namespace' = [_current_namespace EXCEPT ![t] = Top(t).nstoken]
    /\ _current_session' =
          [_current_session EXCEPT ![t] =
              IF Top(t).kind = "ui" THEN @ ELSE ResetTo(Top(t).token, @)]
    /\ frames' = [frames EXCEPT ![t] = SubSeq(@, 1, Len(@) - 1)]
    /\ UNCHANGED << _default_session, running, reactives, nextOid, last, unwound >>
    /\ UNCHANGED << manglerVars, reloadVars, watcherVars >>

\* task t is at an await: between two messages of its connection, or inside
\* the function of an (async) effect
AtAwait(t) ==
    IF frames[t] = << >> THEN TRUE ELSE Top(t).kind \in { "reactive", "with" }

\* the running task suspends and the event loop runs task u
Switch(t, u) ==
    /\ running = t
    /\ u # t
    /\ AtAwait(t)
    /\ running' = u
    /\ UNCHANGED << _current_session, _default_session, _current_namespace,
                    frames, reactives, nextOid, last, unwound >>
    /\ UNCHANGED << manglerVars, reloadVars, watcherVars >>

\* code running in task t calls require_active_session(session)
Require(t, session) ==
    /\ running = t
    /\ LET call == [task |-> t, arg |-> session,
                    out |-> require_active_session(session, t)]
       IN  /\ call # last
           /\ last' = call
    /\ UNCHANGED << _current_session, _default_session, _current_namespace,
                    frames, running, reactives, nextOid, unwound >>
    /\ UNCHANGED << manglerVars, reloadVars, watcherVars >>

NextSession ==
    \/ \E t \in TaskIds : RunServer(t)
    \/ \E t \in TaskIds, id \in ModIds : CallModule(t, id)
    \/ \E t \in TaskIds : CreateReactive(t)
    \/ \E t \in TaskIds : RunReactive(t)
    \/ \E t \in TaskIds, id \in ModIds : CallUi(t, id)
    \/ \E t \in TaskIds : Return(t)
    \/ \E t \in TaskIds, u \in TaskIds : Switch(t, u)

\* the session layer alone
SpecSession == InitSession /\ [][NextSession]_vars

\* the sessions code in task t may hold: the application's session of the
\* task and its module scopes
SessionPool(t) ==
    { AppSession(t) } \cup
    { make_scope(AppSession(t), id, MaxTasks + t) : id \in ModIds }

\* the frame of session_context(s) entered from outside any context
OutermostFrame(s) ==
    [kind |-> "server", arg |-> s, called |-> FALSE, token |-> None,
     nstoken |-> Root]

\* code of task t enters a block: with session_context(session), for one of
\* its sessions or for None
Enter(t, session) ==
    /\ running = t
    /\ Len(frames[t]) < MaxDepth
    /\ session \in { None } \cup SessionPool(t)
    /\ SessionEnter(t, session, "with", session, frames[t])
    /\ UNCHANGED << _default_session, running, reactives, nextOid, last, unwound >>
    /\ UNCHANGED << manglerVars, reloadVars, watcherVars >>

\* the innermost block of task t returns or raises: the finally clauses of
\* namespace_context and of session_context run
Exit(t, how) ==
    /\ running = t
    /\ frames[t] # << >>
    /\ _current_namespace' = [_current_namespace EXCEPT ![t] = Top(t).nstoken]
    /\ _current_session' =
          [_current_session EXCEPT ![t] = Finally(how, Top(t).token, @)]
    /\ frames' = [frames EXCEPT ![t] = SubSeq(@, 1, Len(@) - 1)]
    /\ unwound' = [unwound EXCEPT ![t] = how]
    /\ UNCHANGED << _default_session, running, reactives, nextOid, last >>
    /\ UNCHANGED << manglerVars, reloadVars, watcherVars >>

NextContext ==
    \/ \E t \in TaskIds : \E session \in { None } \cup SessionPool(t) : Enter(t, session)
    \/ \E t \in TaskIds, how \in { "return", "raise" } : Exit(t, how)
    \/ \E t \in TaskIds, u \in TaskIds : Switch(t, u)

\* session_context alone: blocks nested by two tasks that switch at awaits
SpecContext == InitSession /\ [][NextContext]_vars

\* require_active_session alone: every task is inside the session_context of
\* one of its sessions or inside none, with or without a default session
InitRequire ==
    /\ _current_session \in [TaskIds -> { None } \cup UNION { SessionPool(t) : t \in TaskIds }]
    /\ \A t \in TaskIds : _current_session[t] \in { None } \cup SessionPool(t)
    /\ _default_session \in { None, DefaultSession }
    /\ _current_namespace =
          [t \in TaskIds |-> ContextNamespace(_current_session[t], Root)]
    /\ frames = [t \in TaskIds |->
          IF _current_session[t] = None THEN << >>
          ELSE << OutermostFrame(_current_session[t]) >>]
    /\ running \in TaskIds
    /\ reactives = {}
    /\ nextOid = MaxTasks + MaxTasks + 1
    /\ last = None
    /\ unwound = [t \in TaskIds |-> "none"]
    \* the log watcher at rest
    /\ secret_env = "unset"
    /\ record = << >>
    /\ emitted = 0
    /\ begins = 0
    /\ ends = 0
    /\ tasks = 0
    /\ notified = << >>
    \* the rewriting shim at rest
    /\ port = "unset"
    /\ script = << >>
    /\ scope = None
    /\ app_send = "none"
    /\ _mangler = "mangle_callback"
    /\ calls = 0
    /\ _done = FALSE
    /\ _response_start = None
    /\ _body = << >>
    /\ sent = << >>
    /\ raised = FALSE
    /\ appBody = << >>
    /\ appHeaders = << >>
    /\ pos = 0
    /\ nChunks = 0
    /\ nStarts = 0
    /\ nOthers = 0
    /\ finished = FALSE
    \* the control server at rest
    /\ reload_now = FALSE
    /\ launch_browser = FALSE
    /\ launchArg = FALSE
    /\ opened = 0
    /\ nudges = 0
    /\ pulses = 0
    /\ conn = << >>

NextRequire ==
    \/ \E t \in TaskIds : \E session \in { None } \cup SessionPool(t) : Require(t, session)

SpecRequire == InitRequire /\ [][NextRequire]_vars

(***************************************************************************)
(* The worker process: HotReloadHandler reads the server's log records and *)
(* calls reload_begin and reload_end; reload_end notifies the control      *)
(* server.                                                                 *)
(***************************************************************************)
MaxRecords == 3

ReloadingText == << "R", "e", "l", "o", "a", "d", "i", "n", "g", ".", ".", "." >>

StartupText == << "A", "p", "p", "l", "i", "c", "a", "t", "i", "o", "n", " ", "s", "t", "a", "r", "t", "u", "p", " ", "c", "o", "m", "p", "l", "e", "t", "e", "." >>

\* the messages of the log records: the two that uvicorn writes, alone and
\* inside a longer line, one line with both texts, near misses and another
LogLines ==
    { ReloadingText,
      StartupText,
      << "I", ":", " " >> \o StartupText,
      ReloadingText \o << " " >> \o StartupText,
      << "r", "e", "l", "o", "a", "d", "i", "n", "g", ".", ".", "." >>,
      << "A", "p", "p", "l", "i", "c", "a", "t", "i", "o", "n", " ", "s", "t", "a", "r", "t", "u", "p", " ", "c", "o", "m", "p", "l", "e", "t", "e" >>,
      << "S", "t", "a", "r", "t", "e", "d" >> }

\* pat in msg
Contains(msg, pat) == Find(msg, pat) # 0

\* an emit that looks for the startup text first
StartupFirst(msg) ==
    IF Contains(msg, StartupText) THEN "reload_end"
    ELSE IF Contains(msg, ReloadingText) THEN "reload_begin"
    ELSE "none"

\* HotReloadHandler.emit: the hook the record triggers
Hook(msg) ==
    IF Contains(msg, ReloadingText) THEN "reload_begin"
    ELSE IF Contains(msg, StartupText) THEN "reload_end"
    ELSE "none"

\* url = f"ws://127.0.0.1:{port}/notify"
notify_url(p) == [scheme |-> "ws", host |-> "127.0.0.1", port |-> p, path |-> "/notify"]

\* os.getenv("SHINY_AUTORELOAD_SECRET", "")
getenv_secret == IF secret_env = "unset" THEN "" ELSE secret_env

\* reload_begin()
reload_begin ==
    /\ begins' = begins + 1
    /\ UNCHANGED << ends, tasks, notified >>

\* reload_end(): returns when the port is not set, else creates the task
reload_end ==
    /\ ends' = ends + 1
    /\ tasks' = IF port \in { "unset", "" } THEN tasks ELSE tasks + 1
    /\ UNCHANGED << begins, notified >>

InitWatcher ==
    /\ port \in Ports
    /\ secret_env \in { "unset", Secret }
    /\ record = << >>
    /\ emitted = 0
    /\ begins = 0
    /\ ends = 0
    /\ tasks = 0
    /\ notified = << >>
    \* the rewriting shim at rest
    /\ script = << >>
    /\ scope = None
    /\ app_send = "none"
    /\ _mangler = "mangle_callback"
    /\ calls = 0
    /\ _done = FALSE
    /\ _response_start = None
    /\ _body = << >>
    /\ sent = << >>
    /\ raised = FALSE
    /\ appBody = << >>
    /\ appHeaders = << >>
    /\ pos = 0
    /\ nChunks = 0
    /\ nStarts = 0
    /\ nOthers = 0
    /\ finished = FALSE
    \* the control server at rest
    /\ reload_now = FALSE
    /\ launch_browser = FALSE
    /\ launchArg = FALSE
    /\ opened = 0
    /\ nudges = 0
    /\ pulses = 0
    /\ conn = << >>
    \* the session layer at rest
    /\ _current_session = << >>
    /\ _default_session = None
    /\ _current_namespace = << >>
    /\ frames = << >>
    /\ running = 0
    /\ reactives = {}
    /\ nextOid = 0
    /\ last = None
    /\ unwound = << >>

\* the logging module hands a record to HotReloadHandler.emit
emit(msg) ==
    /\ emitted < MaxRecords
    /\ msg \in LogLines
    /\ record' = msg
    /\ emitted' = emitted + 1
    /\ LET hook == Hook(msg)
       IN  IF hook = "reload_begin" THEN reload_begin
           ELSE IF hook = "reload_end" THEN reload_end
           ELSE UNCHANGED << begins, ends, tasks, notified >>
    /\ UNCHANGED << port, secret_env >>
    /\ UNCHANGED << script, scope, app_send, _mangler, calls, _done,
                    _response_start, _body, sent, raised, appBody, appHeaders,
                    pos, nChunks, nStarts, nOthers, finished >>
    /\ UNCHANGED << reloadVars, sessionVars >>

\* the task of reload_end runs: it connects to the control server with the
\* secret header and sends "reload_end"; closed tells whether the send met
\* ConnectionClosed, which the task swallows
NotifyTask(closed) ==
    /\ tasks > 0
    /\ tasks' = tasks - 1
    /\ notified' = Append(notified,
            [url |-> notify_url(port), secret |-> getenv_secret,
             sends |-> << "reload_end" >>, closed |-> closed])
    /\ UNCHANGED << record, emitted, begins, ends, port, secret_env >>
    /\ UNCHANGED << script, scope, app_send, _mangler, calls, _done,
                    _response_start, _body, sent, raised, appBody, appHeaders,
                    pos, nChunks, nStarts, nOthers, finished >>
    /\ UNCHANGED << reloadVars, sessionVars >>

NextWatcher ==
    \/ \E msg \in LogLines : emit(msg)
    \/ \E closed \in BOOLEAN : NotifyTask(closed)

SpecWatcher == InitWatcher /\ [][NextWatcher]_vars


\* the rewriting shim alone: no connection to the control server is made
SpecMangler == InitMangler /\ [][NextMangler]_vars

\* a ResponseMangler constructed with any of the rewrite functions
InitRewrite ==
    /\ port = "8001"
    /\ script \in { Script(u) : u \in WsUrls }
    /\ scope = RootGet
    /\ app_send = "mangler.send"
    /\ _mangler \in Manglers
    /\ calls = 0
    /\ _done = FALSE
    /\ _response_start = None
    /\ _body = << >>
    /\ sent = << >>
    /\ raised = FALSE
    /\ appBody \in Bodies
    /\ appHeaders \in HeaderChoices(appBody)
    /\ pos = 0
    /\ nChunks = 0
    /\ nStarts = 0
    /\ nOthers = 0
    /\ finished = FALSE
    \* the control server at rest
    /\ reload_now = FALSE
    /\ launch_browser = FALSE
    /\ launchArg = FALSE
    /\ opened = 0
    /\ nudges = 0
    /\ pulses = 0
    /\ conn = << >>
    \* the session layer at rest
    /\ _current_session = << >>
    /\ _default_session = None
    /\ _current_namespace = << >>
    /\ frames = << >>
    /\ running = 0
    /\ reactives = {}
    /\ nextOid = 0
    /\ last = None
    /\ unwound = << >>
    \* the log watcher at rest
    /\ secret_env = "unset"
    /\ record = << >>
    /\ emitted = 0
    /\ begins = 0
    /\ ends = 0
    /\ tasks = 0
    /\ notified = << >>

SpecRewrite == InitRewrite /\ [][NextMangler]_vars

\* one request through the middleware, from __call__ on
SpecMiddleware == InitMiddleware /\ [][NextMiddleware]_vars

\* the control server alone: no response is sent through the shim
SpecReload == InitReload /\ [][NextReload]_vars

\* the event loop runs every task that is ready to run
FairReload ==
    \A c \in ConnIds :
        /\ WF_vars(HandlerStart(c))
        /\ WF_vars(Resume(c))
        /\ WF_vars(SendDone(c))
        /\ WF_vars(Recv(c))
        /\ WF_vars(RecvClosed(c))

FairSpecReload == SpecReload /\ FairReload

(***************************************************************************)
(* What the downstream sink has received.                                  *)
(***************************************************************************)
IsStart(e) == e.type = "http.response.start"
IsBody(e)  == e.type = "http.response.body"

\* the concatenation of the bodies of the body events forwarded downstream
RECURSIVE BodyBytes(_)
BodyBytes(events) ==
    IF events = << >> THEN << >>
    ELSE (IF IsBody(Head(events)) THEN Head(events).body ELSE << >>)
         \o BodyBytes(Tail(events))

StartCount(events) == Cardinality({ i \in 1..Len(events) : IsStart(events[i]) })

\* the substring of B of the marker's length that starts at index i
At(B, i) == SubSeq(B, i, i + Len(HeadClose) - 1)

MarkerPlaces(B) == { i \in 1..(Len(B) - Len(HeadClose) + 1) : At(B, i) = HeadClose }

HasMarker(B) == MarkerPlaces(B) # {}

\* the injected fragment: the script tag and its line break, which the
\* marker that closes self.script follows
Fragment == SubSeq(script, 1, Len(script) - Len(HeadClose))

\* B with the fragment immediately before the first occurrence of the marker
Spliced(B) ==
    LET i == CHOOSE k \in MarkerPlaces(B) : \A j \in MarkerPlaces(B) : k <= j
    IN  SubSeq(B, 1, i - 1) \o Fragment \o SubSeq(B, i, Len(B))

DeclaresLength(headers) ==
    \E i \in 1..Len(headers) :
        headers[i][1] \in {"Content-Length", "content-length", "CONTENT-LENGTH"}

\* headers h declare n wherever the application's headers declare len(B), and
\* are the application's headers elsewhere
HeadersWithLength(h, n) ==
    /\ Len(h) = Len(appHeaders)
    /\ \A i \in 1..Len(h) :
          IF appHeaders[i][1] \in {"Content-Length", "content-length", "CONTENT-LENGTH"}
          THEN h[i][1] = appHeaders[i][1] /\ h[i][2] = StrOf(n)
          ELSE h[i] = appHeaders[i]

\* the response is complete: the application sent its last body event and
\* send never raised
Complete == finished /\ ~raised

(***************************************************************************)
(* C1. Content-length correctness: for a body B that contains </head>,     *)
(* however it is chunked, once the response is complete the first event    *)
(* forwarded is the response-start declaring len(B) + d, d the length of   *)
(* the injected fragment, and the forwarded body bytes are B with the      *)
(* fragment spliced immediately before the first marker.                   *)
(***************************************************************************)
C1_ContentLength ==
    (Complete /\ HasMarker(appBody)) =>
        /\ sent # << >>
        /\ IsStart(sent[1])
        /\ HeadersWithLength(sent[1].headers, Len(appBody) + Len(Fragment))
        /\ BodyBytes(sent) = Spliced(appBody)

\* a body whose marker was cut across two chunks, declared by Content-Length,
\* rewritten, with a chunk passed through after the flush
C1_Witness ==
    /\ Complete /\ HasMarker(appBody) /\ DeclaresLength(appHeaders)
    /\ nChunks = 3 /\ Len(sent) = 3 /\ nStarts = 1
    /\ Len(sent[2].body) > Len(script) + 1
    /\ Len(sent[3].body) > 0

(***************************************************************************)
(* C2. No-marker passthrough: if </head> never occurs in the body, then    *)
(* once the application has sent the body event with more_body false the   *)
(* mangler has flushed: the forwarded body bytes are the original bytes    *)
(* and the forwarded response-start carries the original headers.          *)
(***************************************************************************)
C2_NoMarkerPassthrough ==
    (Complete /\ ~HasMarker(appBody)) =>
        /\ _done
        /\ sent # << >>
        /\ IsStart(sent[1])
        /\ sent[1].headers = appHeaders
        /\ BodyBytes(sent) = appBody

\* a marker-free body with a partial marker in it, sent in three chunks
C2_Witness ==
    /\ Complete /\ ~HasMarker(appBody) /\ DeclaresLength(appHeaders)
    /\ Len(appBody) > 4 /\ nChunks = 3 /\ Len(sent) = 2
    /\ sent[2].body = appBody

(***************************************************************************)
(* C3. Chunk-boundary independence: however the body is split into body    *)
(* events, the forwarded response-start headers and the concatenation of   *)
(* the forwarded body bytes are those of sending the body as one chunk.    *)
(***************************************************************************)
\* what send makes of the start followed by the whole body as one chunk
OneChunkBody == mangle_callback(Accumulate(<< >>, appBody))[1]

OneChunkHeaders ==
    CorrectedStart(StartEvent(200), Len(appBody), Len(OneChunkBody)).headers

C3_ChunkIndependence ==
    Complete =>
        /\ sent # << >>
        /\ sent[1].headers = OneChunkHeaders
        /\ BodyBytes(sent) = OneChunkBody

\* two markers in the body, the first cut across the first two of three chunks
C3_Witness ==
    /\ Complete /\ nChunks = 3 /\ Len(appBody) = 14 /\ appBody = HeadClose \o HeadClose
    /\ Len(sent) = 3
    /\ Len(sent[3].body) \in 1..6

(***************************************************************************)
(* C4. Single pre-flush invariant: nothing reaches the downstream sink     *)
(* before the flush; the first event the sink receives is the              *)
(* response-start; for a response (the application sends one               *)
(* response-start) exactly one response-start is emitted, and it precedes  *)
(* every body event.                                                       *)
(***************************************************************************)
C4_StartFirst ==
    /\ ~_done => sent = << >>
    /\ _done => /\ sent # << >>
                /\ IsStart(sent[1])
                /\ \A i \in 1..Len(sent) : IsBody(sent[i]) => i > 1
                /\ nStarts = 1 => StartCount(sent) = 1

\* start, a buffered chunk, an event of another type (dropped), the flush and
\* a chunk passed through
C4_Witness ==
    /\ _done /\ nStarts = 1 /\ nOthers = 1 /\ nChunks = 3
    /\ Len(sent) = 3 /\ IsBody(sent[2]) /\ IsBody(sent[3])

(***************************************************************************)
(* What is observed of the control server.                                 *)
(***************************************************************************)
Present(c) == conn[c].pc # "absent"

\* suspended in reload_now.wait(), its future not yet set
Parked(c) == conn[c].pc = "waiting" /\ conn[c].fut = "pending"

\* woken by a pulse and not yet run again
Woken(c) == conn[c].pc = "waiting" /\ conn[c].fut = "done"

\* a websocket connection to /notify that does not present the secret
Unauthorized(c) ==
    /\ Present(c)
    /\ conn[c].req.path = "/notify"
    /\ conn[c].req.upgrade
    /\ conn[c].req.hdr # Secret

\* its handler waits in recv, and the message that recv returns is "reload_end"
ReadyToNotify(c) ==
    /\ conn[c].pc = "recv"
    /\ conn[c].inbox # << >>
    /\ Head(conn[c].inbox) = [kind |-> "str", data |-> "reload_end"]

(***************************************************************************)
(* C5. Pulse semantics: one pulse wakes every task suspended in wait();    *)
(* a task is woken by a pulse only, so one that calls wait() after the     *)
(* pulse is suspended until a later pulse; whoever called wait() when a    *)
(* step ends is suspended; after a pulse the event is clear, whether it    *)
(* had waiters or none.                                                    *)
(***************************************************************************)
C5_PulseSemantics ==
    [][ /\ (pulses' # pulses) =>
              /\ \A c \in ConnIds : Parked(c) =>
                    conn'[c].pc = "waiting" /\ conn'[c].fut = "done"
              /\ reload_now' = FALSE
              /\ (\A c \in ConnIds : ~Parked(c)) =>
                    \A c \in ConnIds : conn'[c].fut = conn[c].fut
        /\ \A c \in ConnIds :
              (conn[c].fut # "done" /\ conn'[c].fut = "done") =>
                  Parked(c) /\ pulses' = pulses + 1
        /\ \A c \in BrowserIds :
              (/\ conn[c].pc \in {"accepted", "sending"}
               /\ conn'[c].pc \notin {conn[c].pc, "closed"}) =>
                  conn'[c].pc = "waiting" /\ conn'[c].fut = "pending"
      ]_vars

\* one pulse has woken both browsers; the first has sent its frame and called
\* wait() again, after the pulse, and is suspended; the second has yet to run
C5_Witness ==
    /\ pulses = 1
    /\ Parked(1) /\ conn[1].wakes = 1 /\ conn[1].frames = 1
    /\ Woken(2) /\ conn[2].wakes = 1 /\ conn[2].frames = 0

(***************************************************************************)
(* C6. Auth gate: the handler of a /notify connection whose secret header  *)
(* is absent or differs from the server's secret returns without reading   *)
(* a message and without nudging, whatever its peer has sent; every pulse  *)
(* is the nudge of one connection, and no browser has more frames than     *)
(* there were pulses.                                                      *)
(***************************************************************************)
C6_AuthGate ==
    /\ \A c \in ConnIds : Unauthorized(c) =>
          /\ conn[c].reads = 0
          /\ conn[c].nudged = 0
          /\ conn[c].pc \in {"accepted", "closed"}
    /\ pulses = Cardinality({ c \in ConnIds : conn[c].nudged > 0 })
    /\ \A c \in ConnIds : conn[c].nudged <= 1 /\ conn[c].frames <= pulses

\* two rejected connections, one with no secret and one with a wrong one, each
\* of which had sent a message, and a browser still waiting for its first frame
C6_Witness ==
    /\ \E c, d \in ConnIds :
          /\ Unauthorized(c) /\ conn[c].req.hdr = "none"
          /\ Unauthorized(d) /\ conn[d].req.hdr = "wrong"
          /\ \A e \in {c, d} :
                /\ conn[e].pc = "closed" /\ conn[e].handled
                /\ conn[e].unread = 1
    /\ Parked(1) /\ conn[1].frames = 0

(***************************************************************************)
(* C7. End to end: with browsers suspended in wait, a /notify connection   *)
(* with the secret whose message is "reload_end" leads to every such       *)
(* browser being woken; a woken browser is sent one frame and is then      *)
(* suspended in wait again (or its peer has gone and its handler ended),   *)
(* having been sent exactly one frame per time it was woken.               *)
(***************************************************************************)
C7_EndToEnd ==
    /\ [](\A b \in BrowserIds :
             /\ conn[b].frames <= conn[b].wakes
             /\ Parked(b) => conn[b].frames = conn[b].wakes)
    /\ \A w \in WorkerIds, b \in BrowserIds :
          (ReadyToNotify(w) /\ Parked(b)) ~> Woken(b)
    /\ \A b \in BrowserIds :
          Woken(b) ~> \/ Parked(b) /\ conn[b].frames = conn[b].wakes
                      \/ conn[b].pc = "closed"

\* after one pulse both browsers have their one frame and wait again
C7_Witness ==
    /\ pulses = 1
    /\ \A b \in BrowserIds :
          Parked(b) /\ conn[b].frames = 1 /\ conn[b].wakes = 1 /\ ~conn[b].peerClosed

(***************************************************************************)
(* C8. One frame per restart: a connected /autoreload client that waits    *)
(* again has been sent as many frames as there were pulses since its       *)
(* handler entered its loop.  (The code loses the pulses that occur        *)
(* between the handler's wake-up and its next wait().)                     *)
(***************************************************************************)
C8_FramePerPulse ==
    \A b \in BrowserIds : Parked(b) => conn[b].frames = conn[b].since

(***************************************************************************)
(* C9. A request without an Upgrade header, to /autoreload or /notify, is  *)
(* answered 301 with Location the application URL, never reaches the       *)
(* connection handler and causes no pulse; a request with an Upgrade       *)
(* header is not redirected.                                               *)
(***************************************************************************)
C9_Redirect ==
    \A c \in ConnIds : Present(c) =>
        IF ~conn[c].req.upgrade
        THEN /\ conn[c].response # None
             /\ conn[c].response.status = 301
             /\ conn[c].response.Location = app_url
             /\ conn[c].pc = "redirected"
             /\ ~conn[c].handled
             /\ conn[c].reads = 0
             /\ conn[c].nudged = 0
        ELSE /\ conn[c].response = None
             /\ conn[c].pc # "redirected"

\* plain requests to both paths were redirected; a websocket connection was not
C9_Witness ==
    /\ \E c, d \in ConnIds :
          /\ conn[c].pc = "redirected" /\ conn[c].req.path = "/autoreload"
          /\ conn[d].pc = "redirected" /\ conn[d].req.path = "/notify"
    /\ Parked(1)

(***************************************************************************)
(* C10. Launch once: the browser was opened once if the launch flag was    *)
(* set at start and nudge was called, and never otherwise; the flag is     *)
(* false from the first nudge on; every nudge pulses the reload signal.    *)
(***************************************************************************)
C10_LaunchOnce ==
    /\ opened = (IF launchArg /\ nudges > 0 THEN 1 ELSE 0)
    /\ launch_browser = (launchArg /\ nudges = 0)
    /\ pulses = nudges

\* two nudges with the flag set at start: one launch
C10_Witness == launchArg /\ nudges = 2 /\ opened = 1 /\ ~launch_browser

(***************************************************************************)
(* C11. One message per /notify connection: the handler of a /notify       *)
(* connection with the matching secret calls recv once; when a message     *)
(* arrives it reads that one message, nudges once if the message is the    *)
(* text "reload_end" and not at all if it is other text or binary data,    *)
(* and returns; when its peer closes before sending it reads nothing, does *)
(* not nudge, and returns.  No other connection reads a message.           *)
(***************************************************************************)
TextReloadEnd(m) == m = [kind |-> "str", data |-> "reload_end"]

Notifier(c) ==
    /\ Present(c) /\ conn[c].req.upgrade
    /\ conn[c].req.path = "/notify" /\ conn[c].req.hdr = Secret

C11_NotifyOnce ==
    /\ [](\A c \in ConnIds :
            /\ conn[c].reads <= 1
            /\ conn[c].nudged <= conn[c].reads
            /\ (conn[c].pc = "recv" \/ conn[c].reads > 0) => Notifier(c)
            /\ (Notifier(c) /\ conn[c].pc = "closed") => conn[c].unread = 0)
    /\ [][\A c \in ConnIds :
            (conn[c].pc = "recv" /\ conn'[c].pc # "recv") =>
                /\ conn'[c].pc = "closed"
                /\ IF conn[c].inbox # << >>
                   THEN LET n == IF TextReloadEnd(Head(conn[c].inbox)) THEN 1 ELSE 0
                        IN  /\ conn'[c].reads = 1
                            /\ conn'[c].nudged = n
                            /\ nudges' = nudges + n
                            /\ pulses' = pulses + n
                   ELSE /\ conn[c].peerClosed
                        /\ conn'[c].reads = 0
                        /\ conn'[c].nudged = 0
                        /\ nudges' = nudges
                        /\ pulses' = pulses]_vars

C11_Witness ==
    /\ pulses = 1 /\ nudges = 1
    /\ \E c, d \in WorkerIds :
          /\ Notifier(c) /\ conn[c].pc = "closed"
          /\ conn[c].reads = 1 /\ conn[c].nudged = 1
          /\ Notifier(d) /\ conn[d].pc = "closed"
          /\ conn[d].reads = 1 /\ conn[d].nudged = 0
    /\ Parked(1) /\ conn[1].frames = 1

(***************************************************************************)
(* C12. Disconnect: once the peer of an /autoreload connection has         *)
(* disconnected, the handler of that connection eventually terminates; it  *)
(* terminates without pulsing and without sending another frame.  (The     *)
(* handler is suspended in reload_now.wait(), which the disconnect does    *)
(* not wake: it meets ConnectionClosed in conn.send after the next pulse,  *)
(* and never when there is no next pulse.)                                 *)
(***************************************************************************)
C12_DisconnectTerminates ==
    /\ \A b \in BrowserIds : conn[b].peerClosed ~> (conn[b].pc = "closed")
    /\ [][\A b \in BrowserIds :
            (conn[b].pc # "closed" /\ conn'[b].pc = "closed") =>
                /\ pulses' = pulses
                /\ conn'[b].frames = conn[b].frames]_vars

(***************************************************************************)
(* What is observed of the middleware.                                     *)
(***************************************************************************)
\* __call__ has handed the request to the wrapped app
Called == app_send # "none"

\* one of the three conditions of the passthrough
PassesThrough ==
    scope.type # "http" \/ scope.path # "/" \/ port \in { "unset", "" }

\* every event the application sent is in the sink, the body bytes as sent
Unbuffered ==
    /\ Len(sent) = nStarts + nChunks + nOthers
    /\ BodyBytes(sent) = SubSeq(appBody, 1, pos)
    /\ \A i \in 1..Len(sent) : IsStart(sent[i]) => sent[i].headers = appHeaders

TextHtml == << "t", "e", "x", "t", "/", "h", "t", "m", "l" >>

IsHtml(headers) ==
    \E i \in 1..Len(headers) :
        Lower(headers[i][1]) = "content-type" /\ headers[i][2] = TextHtml

(***************************************************************************)
(* C13. Passthrough: when the scope type is not http, or the path is not   *)
(* "/", or SHINY_AUTORELOAD_PORT is unset or empty (so that the script is  *)
(* empty), __call__ hands the original send to the wrapped app: no         *)
(* ResponseMangler buffers anything, the rewrite function is never called, *)
(* and every event the app sends is appended to the sink as it is.         *)
(***************************************************************************)
C13_PassThrough ==
    /\ [](port \in { "unset", "" } => script = << >>)
    /\ []((Called /\ PassesThrough) =>
            /\ app_send = "send"
            /\ ~_done /\ _response_start = None /\ _body = << >>
            /\ ~raised /\ calls = 0
            /\ Unbuffered)
    /\ [][(Called /\ PassesThrough) =>
            /\ Len(sent') = Len(sent) + 1
            /\ SubSeq(sent', 1, Len(sent)) = sent]_vars

C13_Witness ==
    /\ port = "" /\ scope = RootGet /\ app_send = "send"
    /\ finished /\ appBody = HeadClose /\ DeclaresLength(appHeaders)
    /\ nStarts = 1 /\ nChunks = 2 /\ nOthers = 1 /\ Len(sent) = 4
    /\ IsStart(sent[1]) /\ IsBody(sent[3]) /\ sent[3].body = << "e", "a", "d", ">" >>

(***************************************************************************)
(* C14. Root document on an HTML GET only: a request for "/" with a method *)
(* other than GET, or whose response does not declare text/html, is handed *)
(* the original send, and its response reaches the sink unbuffered and     *)
(* unmodified.  (The code looks at neither the method nor the response's   *)
(* content type.)                                                          *)
(***************************************************************************)
C14_HtmlGetOnly ==
    (/\ Called
     /\ scope.type = "http" /\ scope.path = "/"
     /\ (scope.method # "GET" \/ ~IsHtml(appHeaders)))
        => (app_send = "send" /\ Unbuffered)

(***************************************************************************)
(* C15. Body before start: a body event that reaches send while no         *)
(* response-start is buffered and the mangler is not done raises           *)
(* AssertionError; nothing is forwarded, the rewrite function is not       *)
(* called, and the buffered body and the done flag are as they were.       *)
(***************************************************************************)
C15_BodyBeforeStart ==
    /\ [](raised =>
            /\ sent = << >> /\ _body = << >> /\ ~_done
            /\ _response_start = None /\ calls = 0)
    /\ [][(~_done /\ _response_start = None /\ nChunks' # nChunks) =>
            /\ raised'
            /\ sent' = sent /\ calls' = calls
            /\ _body' = _body /\ _done' = _done
            /\ _response_start' = None]_vars

C15_Witness ==
    /\ raised /\ nStarts = 0 /\ nChunks = 1 /\ nOthers = 1
    /\ appBody = HeadClose /\ pos = Len(appBody) /\ finished

(***************************************************************************)
(* C19. The flush: the mangler flushes on the first body event for which   *)
(* the rewrite function reports done (the marker is in the bytes received  *)
(* so far) or whose more_body is false, and on no earlier event; the flush *)
(* emits two events, the buffered response-start and then one body event   *)
(* carrying the whole rewritten body with the more_body flag of the chunk  *)
(* that triggered it.                                                      *)
(***************************************************************************)
\* the bytes of B the application has sent so far
Received == SubSeq(appBody, 1, pos)

C19_Flush ==
    /\ [](~raised =>
            /\ _done <=> (finished \/ HasMarker(Received))
            /\ ~_done => (sent = << >> /\ _body = Received))
    /\ [][(~_done /\ _done') =>
            /\ sent = << >> /\ Len(sent') = 2
            /\ IsStart(sent'[1])
            /\ sent'[1].status = (IF nStarts = 1 THEN 200 ELSE 500)
            /\ IsBody(sent'[2])
            /\ sent'[2].body = (IF HasMarker(Received') THEN Spliced(Received')
                                ELSE Received')
            /\ "more_body" \in DOMAIN sent'[2]
            /\ sent'[2].more_body = ~finished']_vars

C19_Witness ==
    /\ _done /\ ~finished /\ nStarts = 2 /\ nChunks = 2 /\ calls = 2
    /\ appBody = << "x" >> \o HeadClose /\ pos = Len(appBody)
    /\ Len(sent) = 2 /\ sent[1].status = 500 /\ sent[2].more_body

(***************************************************************************)
(* C20. After the flush: every event passed to send is forwarded to the    *)
(* sink unmodified, in arrival order, once; the rewrite function is not    *)
(* called again; the buffered response-start stays None and the buffered   *)
(* body stays empty.                                                       *)
(***************************************************************************)
C20_AfterFlush ==
    /\ [](_done => (_response_start = None /\ _body = << >>))
    /\ [][_done =>
            /\ _done' /\ calls' = calls
            /\ Len(sent') = Len(sent) + 1
            /\ SubSeq(sent', 1, Len(sent)) = sent
            /\ LET e == sent'[Len(sent')]
               IN  IF nStarts' # nStarts
                   THEN e = [type |-> "http.response.start", status |-> 500,
                             headers |-> appHeaders]
                   ELSE IF nChunks' # nChunks
                   THEN /\ IsBody(e)
                        /\ e.body = SubSeq(appBody, pos + 1, pos')
                        /\ MoreBody(e) = ~finished'
                   ELSE e = [type |-> "http.response.trailers"]]_vars

C20_Witness ==
    /\ _done /\ finished /\ calls = 1
    /\ nStarts = 2 /\ nChunks = 3 /\ nOthers = 1 /\ Len(sent) = 6
    /\ IsBody(sent[3]) /\ IsStart(sent[4]) /\ IsBody(sent[6])
    /\ Len(sent[6].body) > 0

(***************************************************************************)
(* What is observed of the session layer.                                  *)
(***************************************************************************)
\* the ids of a path joined by dashes, outermost first
RECURSIVE DashJoin(_)
DashJoin(path) ==
    IF path = << >> THEN << >>
    ELSE IF Len(path) = 1 THEN path[1]
    ELSE DashJoin(SubSeq(path, 1, Len(path) - 1)) \o << "-" >> \o path[Len(path)]

\* the ids of the module UI functions the stack fs ends with, outermost first
RECURSIVE UiAbove(_)
UiAbove(fs) ==
    IF fs = << >> THEN << >>
    ELSE IF fs[Len(fs)].kind # "ui" THEN << >>
    ELSE Append(UiAbove(SubSeq(fs, 1, Len(fs) - 1)), fs[Len(fs)].arg)

\* the places in the stack of task t of the session_context frames
SessionFrames(t) == { i \in 1..Len(frames[t]) : frames[t][i].kind # "ui" }

\* the innermost of them: the level whose code task t is running
Level(t) == CHOOSE i \in SessionFrames(t) : \A j \in SessionFrames(t) : j <= i

\* a local id of an input or output
LocalIds == { << "f" >> }

(***************************************************************************)
(* C16. Namespaces: for every nesting of module scopes session.ns(id) is   *)
(* the dash-joined chain of the enclosing module ids, outermost first,     *)
(* followed by id (id itself for the top-level session); inside a          *)
(* session's context an element id resolves to the same string, and inside *)
(* module UI functions called there to that prefix, the UI functions' ids  *)
(* and the id.                                                             *)
(***************************************************************************)
C16_Namespaces ==
    /\ \A r \in reactives : \A id \in LocalIds :
          ResolvedId_call(r.owner.ns, id) = DashJoin(Append(r.owner.path, id))
    /\ \A t \in TaskIds : \A id \in LocalIds :
          /\ SessionFrames(t) # {} =>
                LET s == frames[t][Level(t)].arg
                IN  /\ ResolvedId_call(s.ns, id) = DashJoin(Append(s.path, id))
                    /\ resolve_id(t, id) =
                          DashJoin(s.path \o UiAbove(frames[t]) \o << id >>)
                    /\ UiAbove(frames[t]) = << >> =>
                          resolve_id(t, id) = ResolvedId_call(s.ns, id)
          /\ SessionFrames(t) = {} =>
                resolve_id(t, id) = DashJoin(UiAbove(frames[t]) \o << id >>)

C16_Witness ==
    \E t \in TaskIds :
        /\ Len(frames[t]) = 3
        /\ frames[t][1].kind = "reactive"
        /\ _current_session[t].path = << << "o" >>, << "i", "n" >> >>
        /\ UiAbove(frames[t]) = << << "o" >>, << "i", "n" >> >>
        /\ resolve_id(t, << "f" >>) =
              << "o", "-", "i", "n", "-", "o", "-", "i", "n", "-", "f" >>

(***************************************************************************)
(* C17. Current session: at every nesting level, the code of a server      *)
(* function, effect or calc observes get_current_session() to be the very  *)
(* session object passed to that level's server function, also after a     *)
(* nested module server was called and has returned inside the same        *)
(* effect; every level of a stack has the same root session.               *)
(***************************************************************************)
C17_CurrentSession ==
    \A t \in TaskIds :
        SessionFrames(t) # {} =>
            /\ get_current_session(t) = frames[t][Level(t)].arg
            /\ \A i \in SessionFrames(t) :
                  /\ frames[t][i].arg.root = frames[t][Level(t)].arg.root
                  /\ frames[t][i].arg.root \in { t, 0 }
                  /\ frames[t][i].arg.root = 0 => _default_session # None

C17_Witness ==
    \E t \in TaskIds :
        /\ Len(frames[t]) = 1
        /\ frames[t][1].kind = "reactive" /\ frames[t][1].called
        /\ frames[t][1].arg.path = << << "o" >> >>
        /\ frames[t][1].arg.root = t
        /\ get_current_session(t) = frames[t][1].arg
        /\ \E r \in reactives :
              /\ r.owner.path = << << "o" >>, << "i", "n" >> >>
              /\ r.owner.root = t

(***************************************************************************)
(* C18. require_active_session(session) returns the given session when it  *)
(* is not None, otherwise the current session of get_current_session();    *)
(* when there is neither it raises ValueError.  (The code raises           *)
(* RuntimeError.)                                                          *)
(***************************************************************************)
C18_RequireActive ==
    last # None =>
        IF last.arg # None
        THEN last.out = [ok |-> TRUE, value |-> last.arg]
        ELSE IF get_current_session(last.task) # None
        THEN last.out = [ok |-> TRUE, value |-> get_current_session(last.task)]
        ELSE last.out = [ok |-> FALSE, value |-> "ValueError"]

Places(B, pat) ==
    { i \in 1..(Len(B) - Len(pat) + 1) : SubSeq(B, i, i + Len(pat) - 1) = pat }

FirstMarker(B) == CHOOSE k \in MarkerPlaces(B) : \A j \in MarkerPlaces(B) : k <= j

C22_OneFragment ==
    /\ Cardinality(Places(BodyBytes(sent), Fragment)) <= 1
    /\ (~_done /\ ~raised) =>
          /\ ~HasMarker(Received)
          /\ _body = Received
          /\ calls = nChunks
    /\ (_done /\ HasMarker(Received)) =>
          /\ Places(BodyBytes(sent), Fragment) = { FirstMarker(Received) }
          /\ SubSeq(BodyBytes(sent), FirstMarker(Received) + Len(Fragment),
                    Len(BodyBytes(sent)))
               = SubSeq(Received, FirstMarker(Received), Len(Received))
          /\ Cardinality(MarkerPlaces(BodyBytes(sent)))
               = Cardinality(MarkerPlaces(Received))
    /\ (_done /\ ~HasMarker(Received)) => BodyBytes(sent) = Received

\* a body of two markers received in one chunk: the flushed chunk holds the
\* fragment once, before the first marker, and the second marker as it was
C22_Witness ==
    /\ Complete /\ nChunks = 1 /\ calls = 1
    /\ Cardinality(MarkerPlaces(appBody)) = 2
    /\ Len(sent) = 2 /\ IsBody(sent[2])
    /\ Places(sent[2].body, Fragment) = { 1 }
    /\ Cardinality(MarkerPlaces(sent[2].body)) = 2

(***************************************************************************)
(* C27. Before the flush, send neither forwards nor buffers an event whose *)
(* type is neither http.response.start nor http.response.body: the event   *)
(* is lost; a second http.response.start received before the flush takes   *)
(* the place of the buffered one, so that the flush forwards the latest    *)
(* only; after the flush the same events are forwarded unchanged.          *)
(***************************************************************************)
C27_OtherEvents ==
    /\ [][(~_done /\ nOthers' # nOthers) =>
            UNCHANGED << _done, _response_start, _body, sent, raised, calls >>
         ]_vars
    /\ [][(~_done /\ nStarts' # nStarts) =>
            /\ _response_start' =
                  [type |-> "http.response.start",
                   status |-> (IF nStarts = 0 THEN 200 ELSE 500),
                   headers |-> appHeaders]
            /\ UNCHANGED << _done, _body, sent, raised, calls >>
         ]_vars
    /\ [][(~_done /\ _done') =>
            /\ StartCount(sent') = 1
            /\ sent'[1].status = (IF nStarts = 1 THEN 200 ELSE 500)
            /\ \A i \in 1..Len(sent') : IsStart(sent'[i]) \/ IsBody(sent'[i])
         ]_vars
    /\ [][(_done /\ nOthers' # nOthers) =>
            sent' = Append(sent, [type |-> "http.response.trailers"])
         ]_vars
    /\ [][(_done /\ nStarts' # nStarts) =>
            sent' = Append(sent, [type |-> "http.response.start",
                                  status |-> 500, headers |-> appHeaders])
         ]_vars

\* two response-starts and an event of another type were received before the
\* flush: the sink has the second start and the body, nothing else
C27_Witness ==
    /\ _done /\ ~raised /\ nStarts = 2 /\ nOthers = 1 /\ nChunks = 1
    /\ Len(sent) = 2
    /\ IsStart(sent[1]) /\ sent[1].status = 500
    /\ IsBody(sent[2])

(***************************************************************************)
(* C26. Every "autoreload" frame pushed to a browser, and every wake-up of *)
(* a task suspended in wait(), is preceded by a /notify connection that    *)
(* presented the secret and delivered the text message "reload_end"; no    *)
(* other kind of connection (an /autoreload connection, an unknown path, a *)
(* request without Upgrade, a /notify connection that was rejected or that *)
(* closed before its message) pulses the signal or opens the browser.      *)
(***************************************************************************)
\* a /notify connection with the secret whose handler has read "reload_end"
\* and called nudge
Delivered(c) == Notifier(c) /\ conn[c].reads = 1 /\ conn[c].nudged = 1

\* what every state shows of the pulses, wake-ups and frames so far
OnlyDelivered ==
    /\ \A b \in ConnIds :
          /\ conn[b].frames <= conn[b].wakes
          /\ conn[b].wakes <= pulses
          /\ (conn[b].wakes > 0 \/ Woken(b)) =>
                \E c \in ConnIds : c # b /\ Delivered(c)
    /\ \A c \in ConnIds : conn[c].nudged > 0 => Delivered(c)
    /\ pulses = Cardinality({ c \in ConnIds : Delivered(c) })
    /\ opened <= pulses
    /\ ~reload_now

C26_OnlyNotifyPulses ==
    /\ []OnlyDelivered
    /\ [][(\/ pulses' # pulses
           \/ opened' # opened
           \/ launch_browser' # launch_browser
           \/ \E b \in ConnIds : conn'[b].wakes # conn[b].wakes) =>
             \E c \in ConnIds :
                /\ Notifier(c) /\ ReadyToNotify(c)
                /\ conn'[c].pc = "closed"
                /\ conn'[c].nudged = 1
                /\ \A d \in ConnIds \ {c} : conn'[d].nudged = conn[d].nudged]_vars

\* one authenticated "reload_end" opened the browser and woke browser 1,
\* which was sent a frame; a /notify connection without the secret sent
\* "reload_end" too, was rejected, and neither pulsed nor opened anything
C26_Witness ==
    /\ pulses = 1 /\ opened = 1
    /\ conn[1].frames = 1 /\ conn[1].wakes = 1
    /\ \E c, d \in WorkerIds :
          /\ Delivered(c) /\ conn[c].pc = "closed"
          /\ Unauthorized(d) /\ conn[d].req.hdr = "none"
          /\ conn[d].pc = "closed" /\ conn[d].handled /\ conn[d].unread = 1
          /\ conn[d].nudged = 0

(***************************************************************************)
(* C23. The worker's log watcher: a record whose message contains          *)
(* "Application startup complete." and not "Reloading..." triggers the     *)
(* end-hook, which, when SHINY_AUTORELOAD_PORT is set, opens one           *)
(* connection to /notify with the secret and sends the one message         *)
(* "reload_end", and which does nothing (no connection is attempted) when  *)
(* the port is absent; a message that contains "Reloading..." triggers the *)
(* begin-hook only, which has no effect; any other message triggers        *)
(* nothing.                                                                *)
(***************************************************************************)
\* the log lines that contain "Reloading..."
ReloadingLines ==
    { m \in LogLines : \E i \in 1..Len(m) :
          i + 11 <= Len(m) /\ SubSeq(m, i, i + 11) = ReloadingText }

\* the log lines that contain "Application startup complete."
StartupLines ==
    { m \in LogLines : \E i \in 1..Len(m) :
          i + 28 <= Len(m) /\ SubSeq(m, i, i + 28) = StartupText }

PortSet == port \notin { "unset", "" }

C23_Watcher ==
    /\ [](/\ tasks + Len(notified) = (IF PortSet THEN ends ELSE 0)
           /\ \A i \in 1..Len(notified) :
                 /\ notified[i].url =
                       [scheme |-> "ws", host |-> "127.0.0.1",
                        port |-> port, path |-> "/notify"]
                 /\ notified[i].secret =
                       (IF secret_env = "unset" THEN "" ELSE secret_env)
                 /\ notified[i].sends = << "reload_end" >>)
    /\ [][emitted' # emitted =>
            /\ notified' = notified
            /\ IF record' \in ReloadingLines
               THEN begins' = begins + 1 /\ ends' = ends /\ tasks' = tasks
               ELSE IF record' \in StartupLines
               THEN /\ begins' = begins /\ ends' = ends + 1
                    /\ tasks' = (IF PortSet THEN tasks + 1 ELSE tasks)
               ELSE begins' = begins /\ ends' = ends /\ tasks' = tasks]_vars
    /\ [][notified' # notified =>
            /\ tasks > 0 /\ tasks' = tasks - 1
            /\ Len(notified') = Len(notified) + 1
            /\ UNCHANGED << emitted, begins, ends >>]_vars

\* with the port set, the watcher has read a line with both texts (a begin),
\* a startup line (an end, whose task has connected and sent "reload_end")
\* and the near miss without the final dot (nothing)
C23_Witness ==
    /\ PortSet /\ secret_env = Secret
    /\ emitted = 3 /\ begins = 1 /\ ends = 1 /\ tasks = 0
    /\ Len(notified) = 1
    /\ notified[1].secret = Secret /\ ~notified[1].closed
    /\ record \notin ReloadingLines \cup StartupLines
    /\ Len(record) = 28

(***************************************************************************)
(* C24. session_context(s) makes s the current session for the duration of *)
(* the block and, on exit, restores the current session to exactly the     *)
(* value it had before entry, when the block returns and when it raises;   *)
(* nested blocks therefore unwind in stack order; get_current_session()    *)
(* returns the default session whenever the current value is None.         *)
(***************************************************************************)
\* the session of the innermost block task t is inside, None outside any
Innermost(fs) == IF fs = << >> THEN None ELSE fs[Len(fs)].arg

C25_Isolation ==
    /\ [](\A t \in TaskIds :
            (frames[t] # << >> /\ Top(t).arg # None) =>
                /\ get_current_session(t) = Top(t).arg
                /\ get_current_session(t).root = t)
    /\ [][\A u \in TaskIds :
            u # running =>
                /\ _current_session'[u] = _current_session[u]
                /\ _current_namespace'[u] = _current_namespace[u]
                /\ get_current_session(u)' = get_current_session(u)]_vars

\* task 1 is suspended inside the block of its session while task 2, which
\* has raised out of one block, runs inside a block of its own module scope
C25_Witness ==
    /\ running = 2
    /\ Len(frames[1]) = 1 /\ get_current_session(1) = AppSession(1)
    /\ unwound[2] = "raise"
    /\ Len(frames[2]) = 2
    /\ get_current_session(2) # AppSession(2)
    /\ get_current_session(2).root = 2

====
